---- MODULE Spec2Model ----
(***************************************************************************)
(* Library lending domain (biblioteca_py/domain.py): books, copies,        *)
(* readers, loans, the BioAlert availability notifier and the four         *)
(* LibraryService operations.                                              *)
(*                                                                         *)
(* Dates are day ordinals (date.toordinal), so date + timedelta(days=n) is *)
(* integer addition and (a - b).days is integer subtraction.               *)
(* Optional[date] is a sequence: <<>> is None, <<d>> is the date d.        *)
(* A dict is the sequence of its entries in insertion order.               *)
(* sent is what the gateway was asked to send, last is the latest call as  *)
(* its caller saw it, threads is where each calling thread is in its call. *)
(***************************************************************************)
EXTENDS Integers, Sequences, FiniteSets, TLC

VARIABLES books, copies, readers, loans, newReleaseBorrowed,
          subs, gateway, sent, last, threads

vars == <<books, copies, readers, loans, newReleaseBorrowed,
          subs, gateway, sent, last, threads>>

\* MemoryDb: the four maps and the borrowed-originals set
db == <<books, copies, readers, loans, newReleaseBorrowed>>

\* BioAlert's own fields
alert == <<subs, gateway>>

----------------------------------------------------------------------------
\* Bounds of the model

\* loans created in a behaviour
MaxLoans == 2
\* borrow dates are 0..MaxBorrowDay
MaxBorrowDay == 1
\* return dates are the day a loan of day 0 falls due, and MaxLate days later
MaxLate == 2

\* the loan period in days (add_days(today, 30))
LoanDays == 30

----------------------------------------------------------------------------
\* Values

None == <<>>

Some(d) == <<d>>

IN_LIBRARY == "IN_LIBRARY"
LOANED == "LOANED"
RESERVED == "RESERVED"
LATE == "LATE"
REPAIR == "REPAIR"

CopyStatus == {IN_LIBRARY, LOANED, RESERVED, LATE, REPAIR}

\* ids the callers pass: the seeded ones and one unknown id of each kind
BookIds == {"B1", "B2", "B9"}
CopyIds == {"C1", "C2", "C9"}
ReaderIds == {"R1", "R2", "R9"}

BorrowDays == 0..MaxBorrowDay
ReturnDays == {LoanDays, LoanDays + MaxLate}

Min(S) == CHOOSE x \in S : \A y \in S : x <= y

\* all orders in which a set can be iterated
Orders(S) == {o \in [1..Cardinality(S) -> S] : \A x \in S : \E i \in DOMAIN o : o[i] = x}

----------------------------------------------------------------------------
\* Domain entities

\* Loan.add_days / LibraryService.add_days
add_days(d, n) == d + n

\* variant: days counted from the start of the loan
late_days_since_start(L) ==
  IF L.returned = None THEN 0
  ELSE IF L.returned[1] > L.start THEN L.returned[1] - L.start
  ELSE 0

\* Loan.late_days
late_days(L) ==
  IF L.returned = None THEN 0
  ELSE IF L.returned[1] > L.due THEN L.returned[1] - L.due
  ELSE 0

\* variant: no limit on the active loans
can_borrow_no_limit(r, today) ==
  LET banned == r.activeBanUntil # None /\ today <= r.activeBanUntil[1]
  IN ~banned

\* variant: the last day of the ban is free
can_borrow_exclusive_ban(r, today) ==
  LET banned == r.activeBanUntil # None /\ today < r.activeBanUntil[1]
  IN (~banned) /\ Len(r.activeLoanIds) < 3

\* Reader.can_borrow
can_borrow(r, today) ==
  LET banned == r.activeBanUntil # None /\ today <= r.activeBanUntil[1]
  IN (~banned) /\ Len(r.activeLoanIds) < 3

----------------------------------------------------------------------------
\* dict helpers (loans is a dict keyed by loan id)

Keys(d) == {d[i].key : i \in DOMAIN d}

DictGet(d, k) == d[CHOOSE i \in DOMAIN d : d[i].key = k].val

\* d[k] = v : replaces the value of an existing key, else appends
DictPut(d, k, v) ==
  IF k \in Keys(d)
  THEN [i \in DOMAIN d |-> IF d[i].key = k THEN [key |-> k, val |-> v] ELSE d[i]]
  ELSE Append(d, [key |-> k, val |-> v])

RECURSIVE str(_)
\* the decimal digits of a natural number, as f"{n}" writes them
str(n) == IF n < 10 THEN <<n>> ELSE str(n \div 10) \o <<n % 10>>

\* variant: the id is built from the size of the dict, without the + 1
new_loan_id_len(d) == <<"L">> \o str(Len(d))

\* f"L{len(self.db.loans)+1}": the letter, then the digits
new_loan_id(d) == <<"L">> \o str(Len(d) + 1)

\* variant: one day more
new_loan_due_31(copyId, bookId, readerId, today) ==
  [copyId |-> copyId, bookId |-> bookId, readerId |-> readerId,
   start |-> today, due |-> add_days(today, 31), returned |-> None]

\* Loan(copyId=..., bookId=..., readerId=..., start=today, due=add_days(today, 30))
new_loan(copyId, bookId, readerId, today) ==
  [copyId |-> copyId, bookId |-> bookId, readerId |-> readerId,
   start |-> today, due |-> add_days(today, LoanDays), returned |-> None]

\* variant: the id stays
remove_loan_id_keep(ids, loanId) == ids

\* [x for x in R.activeLoanIds if x != loanId]
remove_loan_id(ids, loanId) == SelectSeq(ids, LAMBDA x : x # loanId)

\* variant: one day of ban per day late
ban_until_1x(when, late) == when + late

\* when + timedelta(days=2 * late)
ban_until(when, late) == when + 2 * late

\* variant: the element stays
discard_noop(S, x) == S

\* set.discard
discard(S, x) == S \ {x}

----------------------------------------------------------------------------
\* BioAlert

message(to, title) ==
  [to |-> to, subject |-> <<"Disponible: ", title>>, body |-> "Ya puedes solicitarlo"]

\* variant: the subscribers of every book
subscribers_all(bookId) == UNION {subs[b] : b \in DOMAIN subs}

\* self.subs.get(bookId, set())
subscribers(bookId) == IF bookId \in DOMAIN subs THEN subs[bookId] ELSE {}

\* BioAlert.notify_available with the two lookups the service passes, as the
\* last statement of the call: the loop sends to the subscribers in some
\* order; the lookup of a subscriber who is no reader of the store raises
\* KeyError, which ends the loop and the call
notify_available(bookId, call) ==
  IF ~gateway
  THEN sent' = sent /\ last' = call
  ELSE \E o \in Orders(subscribers(bookId)) :
         LET bad == {i \in DOMAIN o : o[i] \notin DOMAIN readers}
             n == IF bad = {} THEN Len(o) ELSE Min(bad) - 1
         IN /\ sent' = sent \o [i \in 1..n |->
                                 message(readers'[o[i]].email, books[bookId].title)]
            /\ last' = IF bad = {} THEN call ELSE [call EXCEPT !.result = "KeyError"]

\* a call of the notifier, as the caller sees it (no fault, no return value)
AlertCall(op, bookId, readerId) ==
  [op |-> op, id |-> bookId, reader |-> readerId, day |-> 0, result |-> "OK", ret |-> <<>>]

\* BioAlert.set_gateway (g: a gateway is given, not None)
set_gateway(g) ==
  /\ gateway' = g
  /\ last' = AlertCall("set_gateway", "", "")
  /\ UNCHANGED <<db, subs, sent>>

\* variant: the subscriber replaces the ones the book had
subscribe_replace(bookId, readerId) ==
  /\ subs' = [b \in DOMAIN subs \cup {bookId} |->
                IF b = bookId THEN {readerId} ELSE subs[b]]
  /\ last' = AlertCall("subscribe", bookId, readerId)
  /\ UNCHANGED <<db, gateway, sent>>

\* BioAlert.subscribe: self.subs.setdefault(bookId, set()).add(readerId)
subscribe(bookId, readerId) ==
  /\ subs' = IF bookId \in DOMAIN subs
             THEN [subs EXCEPT ![bookId] = @ \cup {readerId}]
             ELSE [b \in DOMAIN subs \cup {bookId} |->
                     IF b = bookId THEN {readerId} ELSE subs[b]]
  /\ last' = AlertCall("subscribe", bookId, readerId)
  /\ UNCHANGED <<db, gateway, sent>>

\* BioAlert.reset
reset ==
  /\ subs' = [b \in {} |-> {}]
  /\ gateway' = FALSE
  /\ last' = AlertCall("reset", "", "")
  /\ UNCHANGED <<db, sent>>

----------------------------------------------------------------------------
\* LibraryService

\* raise ValueError(fault): the call ends here, nothing was written
Raise(call, fault) ==
  /\ last' = [call EXCEPT !.result = fault]
  /\ UNCHANGED <<db, alert, sent>>

\* a call and what its caller sees of it: the operation, its arguments (the
\* copy or book id, the reader id, "" where the operation takes none, the
\* date), "OK" or the fault raised, and the loan id returned
Call(op, id, readerId, day) ==
  [op |-> op, id |-> id, reader |-> readerId, day |-> day, result |-> "OK", ret |-> None]


\* variant: the status of the copy is not checked
borrow_copy_fault_no_status(copyId, readerId, today) ==
  IF copyId \notin DOMAIN copies THEN "COPY_NOT_FOUND"
  ELSE IF readerId \notin DOMAIN readers THEN "READER_NOT_FOUND"
  ELSE IF ~can_borrow(readers[readerId], today) THEN "BORROW_FORBIDDEN"
  ELSE "OK"

\* variant: the status of the copy is checked before the reader's eligibility
borrow_copy_fault_status_first(copyId, readerId, today) ==
  IF copyId \notin DOMAIN copies THEN "COPY_NOT_FOUND"
  ELSE IF readerId \notin DOMAIN readers THEN "READER_NOT_FOUND"
  ELSE IF copies[copyId].status # IN_LIBRARY THEN "COPY_NOT_AVAILABLE"
  ELSE IF ~can_borrow(readers[readerId], today) THEN "BORROW_FORBIDDEN"
  ELSE "OK"

\* the precondition checks of borrow_copy, in the order of the code
borrow_copy_fault(copyId, readerId, today) ==
  IF copyId \notin DOMAIN copies THEN "COPY_NOT_FOUND"
  ELSE IF readerId \notin DOMAIN readers THEN "READER_NOT_FOUND"
  ELSE IF ~can_borrow(readers[readerId], today) THEN "BORROW_FORBIDDEN"
  ELSE IF copies[copyId].status # IN_LIBRARY THEN "COPY_NOT_AVAILABLE"
  ELSE "OK"

\* variant: the copy is marked LOANED before the reader and the copy are checked
borrow_copy_early_write(copyId, readerId, today) ==
  LET call == Call("borrow_copy", copyId, readerId, today)
      fault == borrow_copy_fault(copyId, readerId, today)
  IN IF fault \in {"COPY_NOT_FOUND", "READER_NOT_FOUND"}
     THEN Raise(call, fault)
     ELSE IF fault # "OK"
     THEN /\ copies' = [copies EXCEPT ![copyId].status = LOANED]
          /\ last' = [call EXCEPT !.result = fault]
          /\ UNCHANGED <<books, readers, loans, newReleaseBorrowed, alert, sent>>
     ELSE LET loan == new_loan(copyId, copies[copyId].bookId, readerId, today)
              loanId == new_loan_id(loans)
          IN /\ loans' = DictPut(loans, loanId, loan)
             /\ copies' = [copies EXCEPT ![copyId].status = LOANED]
             /\ readers' = [readers EXCEPT ![readerId].activeLoanIds = Append(@, loanId)]
             /\ last' = [call EXCEPT !.ret = Some(loanId)]
             /\ UNCHANGED <<books, newReleaseBorrowed, alert, sent>>

\* LibraryService.borrow_copy
borrow_copy(copyId, readerId, today) ==
  LET call == Call("borrow_copy", copyId, readerId, today)
      fault == borrow_copy_fault(copyId, readerId, today)
  IN IF fault # "OK"
     THEN Raise(call, fault)
     ELSE LET loan == new_loan(copyId, copies[copyId].bookId, readerId, today)
              loanId == new_loan_id(loans)
          IN /\ loans' = DictPut(loans, loanId, loan)
             /\ copies' = [copies EXCEPT ![copyId].status = LOANED]
             /\ readers' = [readers EXCEPT ![readerId].activeLoanIds = Append(@, loanId)]
             /\ last' = [call EXCEPT !.ret = Some(loanId)]
             /\ UNCHANGED <<books, newReleaseBorrowed, alert, sent>>

\* variant: the borrowed-originals set is not checked
borrow_original_fault_no_exclusive(bookId, readerId, today) ==
  IF bookId \notin DOMAIN books THEN "BOOK_NOT_FOUND"
  ELSE IF readerId \notin DOMAIN readers THEN "READER_NOT_FOUND"
  ELSE IF ~books[bookId].isNewRelease THEN "NOT_NEW_RELEASE"
  ELSE IF ~can_borrow(readers[readerId], today) THEN "BORROW_FORBIDDEN"
  ELSE "OK"

\* variant: the reader's eligibility is checked before the new-release flag
borrow_original_fault_eligibility_first(bookId, readerId, today) ==
  IF bookId \notin DOMAIN books THEN "BOOK_NOT_FOUND"
  ELSE IF readerId \notin DOMAIN readers THEN "READER_NOT_FOUND"
  ELSE IF ~can_borrow(readers[readerId], today) THEN "BORROW_FORBIDDEN"
  ELSE IF ~books[bookId].isNewRelease THEN "NOT_NEW_RELEASE"
  ELSE IF bookId \in newReleaseBorrowed THEN "ORIGINAL_ALREADY_BORROWED"
  ELSE "OK"

\* the precondition checks of borrow_original_new_release, in the order of the code
borrow_original_fault(bookId, readerId, today) ==
  IF bookId \notin DOMAIN books THEN "BOOK_NOT_FOUND"
  ELSE IF readerId \notin DOMAIN readers THEN "READER_NOT_FOUND"
  ELSE IF ~books[bookId].isNewRelease THEN "NOT_NEW_RELEASE"
  ELSE IF ~can_borrow(readers[readerId], today) THEN "BORROW_FORBIDDEN"
  ELSE IF bookId \in newReleaseBorrowed THEN "ORIGINAL_ALREADY_BORROWED"
  ELSE "OK"

\* LibraryService.borrow_original_new_release
borrow_original_new_release(bookId, readerId, today) ==
  LET call == Call("borrow_original_new_release", bookId, readerId, today)
      fault == borrow_original_fault(bookId, readerId, today)
  IN IF fault # "OK"
     THEN Raise(call, fault)
     ELSE LET loan == new_loan("", bookId, readerId, today)
              loanId == new_loan_id(loans)
          IN /\ loans' = DictPut(loans, loanId, loan)
             /\ newReleaseBorrowed' = newReleaseBorrowed \cup {bookId}
             /\ readers' = [readers EXCEPT ![readerId].activeLoanIds = Append(@, loanId)]
             /\ last' = [call EXCEPT !.ret = Some(loanId)]
             /\ UNCHANGED <<books, copies, alert, sent>>

\* variant: the first loan of the copy, open or closed
open_copy_loan_any(copyId) ==
  LET idx == {i \in DOMAIN loans : loans[i].val.copyId = copyId}
  IN IF idx = {} THEN None ELSE Some(loans[Min(idx)].key)

\* for k, L in self.db.loans.items(): first open loan of the copy, None if there is none
open_copy_loan(copyId) ==
  LET idx == {i \in DOMAIN loans :
                loans[i].val.copyId = copyId /\ loans[i].val.returned = None}
  IN IF idx = {} THEN None ELSE Some(loans[Min(idx)].key)

\* variant: the open loan of the book's original, whoever holds it
open_original_loan_any_reader(bookId, readerId) ==
  LET idx == {i \in DOMAIN loans :
                /\ loans[i].val.bookId = bookId
                /\ loans[i].val.copyId = ""
                /\ loans[i].val.returned = None}
  IN IF idx = {} THEN None ELSE Some(loans[Min(idx)].key)

\* first open loan of the book's original held by the reader, None if there is none
open_original_loan(bookId, readerId) ==
  LET idx == {i \in DOMAIN loans :
                /\ loans[i].val.bookId = bookId
                /\ loans[i].val.readerId = readerId
                /\ loans[i].val.copyId = ""
                /\ loans[i].val.returned = None}
  IN IF idx = {} THEN None ELSE Some(loans[Min(idx)].key)

\* variant: the status of the copy is not checked
return_copy_fault_no_status(copyId) ==
  IF copyId \notin DOMAIN copies THEN "COPY_NOT_FOUND"
  ELSE IF open_copy_loan(copyId) = None THEN "LOAN_NOT_FOUND"
  ELSE "OK"

\* the precondition checks of return_copy, in the order of the code
return_copy_fault(copyId) ==
  IF copyId \notin DOMAIN copies THEN "COPY_NOT_FOUND"
  ELSE IF copies[copyId].status \notin {LOANED, LATE} THEN "COPY_NOT_LOANED"
  ELSE IF open_copy_loan(copyId) = None THEN "LOAN_NOT_FOUND"
  ELSE "OK"

\* the reader record after a return closed the loan Lr (returned already set)
reader_after_return(R, loanId, Lr, when) ==
  LET late == late_days(Lr)
      banned == IF late > 0 THEN [R EXCEPT !.activeBanUntil = Some(ban_until(when, late))]
                ELSE R
  IN [banned EXCEPT !.activeLoanIds = remove_loan_id(@, loanId)]

\* variant: the copy keeps its status when it comes back
return_copy_keep_status(copyId, when) ==
  LET call == Call("return_copy", copyId, "", when)
      fault == return_copy_fault(copyId)
  IN IF fault # "OK"
     THEN Raise(call, fault)
     ELSE LET loanId == open_copy_loan(copyId)[1]
              L == DictGet(loans, loanId)
              Lr == [L EXCEPT !.returned = Some(when)]
          IN /\ L.readerId \in DOMAIN readers
             /\ loans' = DictPut(loans, loanId, Lr)
             /\ readers' = [readers EXCEPT ![L.readerId] =
                              reader_after_return(@, loanId, Lr, when)]
             /\ notify_available(L.bookId, call)
             /\ UNCHANGED <<books, copies, newReleaseBorrowed, alert>>

\* LibraryService.return_copy
return_copy(copyId, when) ==
  LET call == Call("return_copy", copyId, "", when)
      fault == return_copy_fault(copyId)
  IN IF fault # "OK"
     THEN Raise(call, fault)
     ELSE LET loanId == open_copy_loan(copyId)[1]
              L == DictGet(loans, loanId)
              Lr == [L EXCEPT !.returned = Some(when)]
          IN /\ L.readerId \in DOMAIN readers   \* else KeyError
             /\ loans' = DictPut(loans, loanId, Lr)
             /\ readers' = [readers EXCEPT ![L.readerId] =
                              reader_after_return(@, loanId, Lr, when)]
             /\ copies' = [copies EXCEPT ![copyId].status = IN_LIBRARY]
             /\ notify_available(L.bookId, call)
             /\ UNCHANGED <<books, newReleaseBorrowed, alert>>

\* the precondition checks of return_original_new_release, in the order of the code
return_original_fault(bookId, readerId) ==
  IF bookId \notin DOMAIN books THEN "BOOK_NOT_FOUND"
  ELSE IF readerId \notin DOMAIN readers THEN "READER_NOT_FOUND"
  ELSE IF bookId \notin newReleaseBorrowed THEN "ORIGINAL_NOT_BORROWED"
  ELSE IF open_original_loan(bookId, readerId) = None THEN "LOAN_NOT_FOUND"
  ELSE "OK"

\* LibraryService.return_original_new_release
return_original_new_release(bookId, readerId, when) ==
  LET call == Call("return_original_new_release", bookId, readerId, when)
      fault == return_original_fault(bookId, readerId)
  IN IF fault # "OK"
     THEN Raise(call, fault)
     ELSE LET loanId == open_original_loan(bookId, readerId)[1]
              L == DictGet(loans, loanId)
              Lr == [L EXCEPT !.returned = Some(when)]
          IN /\ loans' = DictPut(loans, loanId, Lr)
             /\ readers' = [readers EXCEPT ![readerId] =
                              reader_after_return(@, loanId, Lr, when)]
             /\ newReleaseBorrowed' = discard(newReleaseBorrowed, bookId)
             /\ notify_available(bookId, call)
             /\ UNCHANGED <<books, copies, alert>>

\* the threads that call the service, and a thread that is in no call
Threads == {1, 2}

Idle == [pc |-> "idle", call |-> Call("none", "", "", 0), loanId |-> None]

----------------------------------------------------------------------------
\* The seeded store: an ordinary book B1 with the copy C1, a new release B2
\* with the copy C2, two readers (R2 carries a ban until day 0), a gateway
\* and one subscription per book.

Init ==
  /\ books = [b \in {"B1", "B2"} |->
                IF b = "B1" THEN [title |-> "Software Engineering", isNewRelease |-> FALSE]
                ELSE [title |-> "Clean C++ (New Release)", isNewRelease |-> TRUE]]
  /\ copies = [c \in {"C1", "C2"} |->
                 [bookId |-> IF c = "C1" THEN "B1" ELSE "B2", status |-> IN_LIBRARY]]
  /\ readers = [r \in {"R1", "R2"} |->
                  [email |-> IF r = "R1" THEN "alice@example.com" ELSE "bob@example.com",
                   activeBanUntil |-> IF r = "R1" THEN None ELSE Some(0),
                   activeLoanIds |-> <<>>]]
  /\ loans = <<>>
  /\ newReleaseBorrowed = {}
  /\ subs = [b \in {"B1", "B2"} |-> IF b = "B1" THEN {"R2"} ELSE {"R1"}]
  /\ gateway = TRUE
  /\ sent = <<>>
  /\ last = Call("init", "", "", 0)
  /\ threads = [t \in Threads |-> Idle]

\* the store of Init after R1 borrowed the copy C1 on day 0
InitSeeded ==
  /\ books = [b \in {"B1", "B2"} |->
                IF b = "B1" THEN [title |-> "Software Engineering", isNewRelease |-> FALSE]
                ELSE [title |-> "Clean C++ (New Release)", isNewRelease |-> TRUE]]
  /\ copies = [c \in {"C1", "C2"} |->
                 [bookId |-> IF c = "C1" THEN "B1" ELSE "B2",
                  status |-> IF c = "C1" THEN LOANED ELSE IN_LIBRARY]]
  /\ readers = [r \in {"R1", "R2"} |->
                  [email |-> IF r = "R1" THEN "alice@example.com" ELSE "bob@example.com",
                   activeBanUntil |-> IF r = "R1" THEN None ELSE Some(0),
                   activeLoanIds |-> IF r = "R1" THEN <<new_loan_id(<<>>)>> ELSE <<>>]]
  /\ loans = DictPut(<<>>, new_loan_id(<<>>), new_loan("C1", "B1", "R1", 0))
  /\ newReleaseBorrowed = {}
  /\ subs = [b \in {"B1", "B2"} |-> IF b = "B1" THEN {"R2"} ELSE {"R1"}]
  /\ gateway = TRUE
  /\ sent = <<>>
  /\ last = [Call("borrow_copy", "C1", "R1", 0) EXCEPT !.ret = Some(new_loan_id(<<>>))]
  /\ threads = [t \in Threads |-> Idle]

\* a store the caller seeded with the copy C2 in any status and no loan
InitStatus ==
  /\ books = [b \in {"B1", "B2"} |->
                IF b = "B1" THEN [title |-> "Software Engineering", isNewRelease |-> FALSE]
                ELSE [title |-> "Clean C++ (New Release)", isNewRelease |-> TRUE]]
  /\ \E s \in CopyStatus :
       copies = [c \in {"C1", "C2"} |->
                   [bookId |-> IF c = "C1" THEN "B1" ELSE "B2",
                    status |-> IF c = "C1" THEN IN_LIBRARY ELSE s]]
  /\ readers = [r \in {"R1", "R2"} |->
                  [email |-> IF r = "R1" THEN "alice@example.com" ELSE "bob@example.com",
                   activeBanUntil |-> IF r = "R1" THEN None ELSE Some(0),
                   activeLoanIds |-> <<>>]]
  /\ loans = <<>>
  /\ newReleaseBorrowed = {}
  /\ subs = [b \in {"B1", "B2"} |-> IF b = "B1" THEN {"R2"} ELSE {"R1"}]
  /\ gateway = TRUE
  /\ sent = <<>>
  /\ last = Call("init", "", "", 0)
  /\ threads = [t \in Threads |-> Idle]

\* the calls, over the ids and dates above; a behaviour creates at most n loans
BorrowCopy(n) ==
  \E c \in CopyIds, r \in ReaderIds, d \in BorrowDays :
    borrow_copy(c, r, d) /\ Len(loans') <= n /\ UNCHANGED threads

BorrowOriginal(n) ==
  \E b \in BookIds, r \in ReaderIds, d \in BorrowDays :
    borrow_original_new_release(b, r, d) /\ Len(loans') <= n /\ UNCHANGED threads

ReturnCopy ==
  \E c \in CopyIds, d \in ReturnDays : return_copy(c, d) /\ UNCHANGED threads

ReturnOriginal ==
  \E b \in BookIds, r \in ReaderIds, d \in ReturnDays :
    return_original_new_release(b, r, d) /\ UNCHANGED threads

Next == BorrowCopy(MaxLoans) \/ BorrowOriginal(MaxLoans) \/ ReturnCopy \/ ReturnOriginal

Spec == Init /\ [][Next]_vars

NextSeeded ==
  BorrowCopy(MaxLoans + 1) \/ BorrowOriginal(MaxLoans + 1) \/ ReturnCopy \/ ReturnOriginal

\* the same calls on the store that already holds one loan
SpecSeeded == InitSeeded /\ [][NextSeeded]_vars

\* the same calls on the store whose copy C2 was seeded in any status
SpecStatus == InitStatus /\ [][Next]_vars

\* The notifier and the service together: the calls of BioAlert over the two
\* books and all reader ids, and the four operations by the reader R1 on the
\* copy C1, the original of B2 and one unknown id of each kind.
AlertCopyIds == {"C1", "C9"}
AlertBookIds == {"B2", "B9"}
AlertReader == "R1"
AlertBorrowDay == 0
AlertReturnDay == LoanDays

Subscribe ==
  \E b \in DOMAIN books, r \in ReaderIds : subscribe(b, r) /\ UNCHANGED threads

SetGateway == \E g \in BOOLEAN : set_gateway(g) /\ UNCHANGED threads

Reset == reset /\ UNCHANGED threads

AlertBorrowCopy ==
  \E c \in AlertCopyIds :
    borrow_copy(c, AlertReader, AlertBorrowDay) /\ Len(loans') <= MaxLoans /\ UNCHANGED threads

AlertBorrowOriginal ==
  \E b \in AlertBookIds :
    /\ borrow_original_new_release(b, AlertReader, AlertBorrowDay)
    /\ Len(loans') <= MaxLoans /\ UNCHANGED threads

AlertReturnCopy ==
  \E c \in AlertCopyIds : return_copy(c, AlertReturnDay) /\ UNCHANGED threads

AlertReturnOriginal ==
  \E b \in AlertBookIds :
    return_original_new_release(b, AlertReader, AlertReturnDay) /\ UNCHANGED threads

NextAlert ==
  \/ Subscribe \/ SetGateway \/ Reset
  \/ AlertBorrowCopy \/ AlertBorrowOriginal \/ AlertReturnCopy \/ AlertReturnOriginal

SpecAlert == Init /\ [][NextAlert]_vars

\* Two threads call the borrows on the one service. The code takes no lock, so
\* a thread can be preempted between statements: a borrow is its checks, then
\* the new loan and its id, then the writes, and the other thread may run in
\* between. Each thread makes one call.

\* the checks of a borrow (domain.py 137-149, 160-172)
BorrowCheck(t, op, id, readerId, today) ==
  LET call == Call(op, id, readerId, today)
      fault == IF op = "borrow_copy" THEN borrow_copy_fault(id, readerId, today)
               ELSE borrow_original_fault(id, readerId, today)
  IN /\ threads[t].pc = "idle"
     /\ IF fault # "OK"
        THEN /\ threads' = [threads EXCEPT ![t] =
                              [pc |-> "done", call |-> [call EXCEPT !.result = fault],
                               loanId |-> None]]
             /\ last' = [call EXCEPT !.result = fault]
        ELSE /\ threads' = [threads EXCEPT ![t] =
                              [pc |-> "checked", call |-> call, loanId |-> None]]
             /\ last' = last
     /\ UNCHANGED <<db, alert, sent>>

\* loan = Loan(...); loanId = f"L{len(self.db.loans)+1}" (151-153, 174-177)
BorrowName(t) ==
  /\ threads[t].pc = "checked"
  /\ threads' = [threads EXCEPT ![t].pc = "named",
                                ![t].loanId = Some(new_loan_id(loans))]
  /\ UNCHANGED <<db, alert, sent, last>>

\* the writes and the return of the loan id (154-157, 178-181)
BorrowWrite(t) ==
  LET call == threads[t].call
      loanId == threads[t].loanId[1]
      done == [call EXCEPT !.ret = Some(loanId)]
  IN /\ threads[t].pc = "named"
     /\ IF call.op = "borrow_copy"
        THEN /\ loans' = DictPut(loans, loanId,
                                 new_loan(call.id, copies[call.id].bookId, call.reader, call.day))
             /\ copies' = [copies EXCEPT ![call.id].status = LOANED]
             /\ UNCHANGED newReleaseBorrowed
        ELSE /\ loans' = DictPut(loans, loanId,
                                 new_loan("", call.id, call.reader, call.day))
             /\ newReleaseBorrowed' = newReleaseBorrowed \cup {call.id}
             /\ UNCHANGED copies
     /\ readers' = [readers EXCEPT ![call.reader].activeLoanIds = Append(@, loanId)]
     /\ last' = done
     /\ threads' = [threads EXCEPT ![t].pc = "done", ![t].call = done]
     /\ UNCHANGED <<books, alert, sent>>

ThreadBorrowCopy ==
  \E t \in Threads, c \in CopyIds, r \in ReaderIds, d \in BorrowDays :
    BorrowCheck(t, "borrow_copy", c, r, d)

ThreadBorrowOriginal ==
  \E t \in Threads, b \in BookIds, r \in ReaderIds, d \in BorrowDays :
    BorrowCheck(t, "borrow_original_new_release", b, r, d)

ThreadName == \E t \in Threads : BorrowName(t)

ThreadWrite == \E t \in Threads : BorrowWrite(t)

NextConcurrent == ThreadBorrowCopy \/ ThreadBorrowOriginal \/ ThreadName \/ ThreadWrite

SpecConcurrent == Init /\ [][NextConcurrent]_vars

----------------------------------------------------------------------------
\* Properties

\* the open loans (returned is None), as positions in the loans dict
Open == {i \in DOMAIN loans : loans[i].val.returned = None}

OpenOfReader(r) == {i \in Open : loans[i].val.readerId = r}

OpenOfCopy(c) == {i \in Open : loans[i].val.copyId = c}

OpenOriginal(b) == {i \in Open : loans[i].val.copyId = "" /\ loans[i].val.bookId = b}

Closed == DOMAIN loans \ Open

NewReleases == {b \in DOMAIN books : books[b].isNewRelease}

Faults ==
  {"COPY_NOT_FOUND", "READER_NOT_FOUND", "BOOK_NOT_FOUND", "LOAN_NOT_FOUND",
   "COPY_NOT_AVAILABLE", "COPY_NOT_LOANED", "ORIGINAL_ALREADY_BORROWED",
   "ORIGINAL_NOT_BORROWED", "NOT_NEW_RELEASE", "BORROW_FORBIDDEN"}

Returns == {"return_copy", "return_original_new_release"}

Borrows == {"borrow_copy", "borrow_original_new_release"}

AtLimit(r) == r \in DOMAIN readers /\ Len(readers[r].activeLoanIds) = 3

Banned(r, d) == readers[r].activeBanUntil # None /\ d <= readers[r].activeBanUntil[1]

\* the loans the step closes
ClosedNow == {i \in Open : loans'[i].val.returned # None}

\* the ban a closed late loan left on its borrower when it was returned
BanOf(L) == L.returned[1] + 2 * (L.returned[1] - L.due)

IsLate(L) == L.returned # None /\ L.returned[1] > L.due

\* the step is a call of one of the operations in ops
Called(ops) == last'.op \in ops

Succeeded(ops) == Called(ops) /\ last'.result = "OK"


\* C1: no reader ever has more than 3 active loans, copies and originals
\* counted together, and a borrow of either kind by a reader who has 3 active
\* loans never succeeds: it raises BORROW_FORBIDDEN whenever its target is
\* known (an existing copy, an existing new-release book) and changes nothing.
C1_LoanLimit ==
  /\ [](\A r \in DOMAIN readers : Len(readers[r].activeLoanIds) <= 3)
  /\ [][(Called(Borrows) /\ AtLimit(last'.reader)) =>
          /\ last'.result # "OK"
          /\ (last'.id \in DOMAIN copies \cup NewReleases)
               => last'.result = "BORROW_FORBIDDEN"
          /\ UNCHANGED db]_vars

\* a reader without a ban holds a copy and the original, three loans in all,
\* and was just refused a borrow
C1_Witness ==
  /\ last.op \in Borrows
  /\ last.result = "BORROW_FORBIDDEN"
  /\ AtLimit(last.reader)
  /\ readers[last.reader].activeBanUntil = None
  /\ \E i, j \in OpenOfReader(last.reader) :
       loans[i].val.copyId = "" /\ loans[j].val.copyId # ""

\* C2: a new-release book has at most one open original loan (copyId = ""),
\* it is in newReleaseBorrowed exactly when it has one, and a borrow of an
\* original that is on loan never succeeds: an eligible existing reader gets
\* ORIGINAL_ALREADY_BORROWED.
C2_OriginalExclusive ==
  /\ [](\A b \in NewReleases :
          /\ Cardinality(OpenOriginal(b)) <= 1
          /\ b \in newReleaseBorrowed <=> OpenOriginal(b) # {})
  /\ [][(/\ Called({"borrow_original_new_release"})
         /\ last'.id \in NewReleases \cap newReleaseBorrowed) =>
          /\ last'.result # "OK"
          /\ (/\ last'.reader \in DOMAIN readers
              /\ can_borrow(readers[last'.reader], last'.day))
               => last'.result = "ORIGINAL_ALREADY_BORROWED"
          /\ UNCHANGED db]_vars

\* the original is on loan and a second reader was just refused it
C2_Witness ==
  /\ last.op = "borrow_original_new_release"
  /\ last.result = "ORIGINAL_ALREADY_BORROWED"
  /\ \E i \in OpenOriginal(last.id) :
       OpenOriginal(last.id) = {i} /\ loans[i].val.readerId # last.reader

\* C3: a copy is LOANED exactly when it has exactly one open loan, and no
\* copy ever has two open loans.
C3_CopyLoaned ==
  \A c \in DOMAIN copies :
    /\ copies[c].status = LOANED <=> Cardinality(OpenOfCopy(c)) = 1
    /\ Cardinality(OpenOfCopy(c)) <= 1

\* a copy that was borrowed, returned and borrowed again, next to one in the library
C3_Witness ==
  \E c, c2 \in DOMAIN copies :
    /\ copies[c].status = LOANED
    /\ \E i \in Closed : loans[i].val.copyId = c
    /\ copies[c2].status = IN_LIBRARY

\* C4: a reader's activeLoanIds holds, without duplicates, exactly the ids of
\* the open loans the reader is the borrower of, copy and original loans alike.
C4_ActiveLoanIds ==
  \A r \in DOMAIN readers :
    LET ids == readers[r].activeLoanIds
    IN /\ \A i, j \in DOMAIN ids : i # j => ids[i] # ids[j]
       /\ {ids[i] : i \in DOMAIN ids} = {loans[i].key : i \in OpenOfReader(r)}

\* a reader whose copy loan is closed holds an open original loan, and that one only
C4_Witness ==
  \E r \in DOMAIN readers :
    /\ \E i \in Closed : loans[i].val.readerId = r /\ loans[i].val.copyId # ""
    /\ \E j \in OpenOfReader(r) :
         loans[j].val.copyId = "" /\ readers[r].activeLoanIds = <<loans[j].key>>

\* C5: a return that closes a loan after its due date sets the borrower's
\* activeBanUntil to the return date plus twice the days late, whatever the
\* ban was before.
C5_LateBan ==
  [][Succeeded(Returns) =>
       \E i \in ClosedNow :
         LET L == loans'[i].val
             w == last'.day
         IN /\ ClosedNow = {i}
            /\ L.returned = Some(w)
            /\ w > L.due =>
                 readers'[L.readerId].activeBanUntil = Some(w + 2 * (w - L.due))]_vars

\* a reader returned two loans late and carries the ban of the one that ends
\* earlier: the later-ending ban was overwritten
C5_Witness ==
  \E r \in DOMAIN readers : \E i, j \in Closed :
    /\ loans[i].val.readerId = r /\ loans[j].val.readerId = r
    /\ IsLate(loans[i].val) /\ IsLate(loans[j].val)
    /\ BanOf(loans[i].val) < BanOf(loans[j].val)
    /\ readers[r].activeBanUntil = Some(BanOf(loans[i].val))
    /\ last.op \in Returns /\ last.result = "OK"

\* C6: a return on or before the due date leaves the borrower's
\* activeBanUntil as it was (None stays None).
C6_OnTimeNoBan ==
  [][Succeeded(Returns) =>
       \A i \in ClosedNow :
         LET L == loans'[i].val
         IN last'.day <= L.due =>
              /\ L.returned = Some(last'.day)
              /\ readers'[L.readerId].activeBanUntil = readers[L.readerId].activeBanUntil]_vars

\* a reader without a ban after loans returned on the due date and before it
C6_Witness ==
  \E r \in DOMAIN readers : \E i, j \in Closed :
    /\ loans[i].val.readerId = r /\ loans[j].val.readerId = r
    /\ loans[i].val.returned[1] = loans[i].val.due
    /\ loans[j].val.returned[1] < loans[j].val.due
    /\ readers[r].activeBanUntil = None
    /\ last.op \in Returns /\ last.result = "OK"

\* C7: a loan starts on the as-of date of its borrow, falls due exactly 30
\* days later and is created open; its due date never changes afterwards.
C7_DueDate ==
  /\ [](\A i \in DOMAIN loans : loans[i].val.due = loans[i].val.start + 30)
  /\ [][/\ \A i \in DOMAIN loans :
             /\ loans'[i].val.due = loans[i].val.due
             /\ loans'[i].val.start = loans[i].val.start
        /\ Succeeded(Borrows) =>
             /\ Len(loans') = Len(loans) + 1
             /\ LET L == loans'[Len(loans')].val
                IN /\ L.start = last'.day
                   /\ L.due = last'.day + 30
                   /\ L.returned = None]_vars

\* loans of both kinds and both borrow days, one of them closed
C7_Witness ==
  \E i, j \in DOMAIN loans :
    /\ loans[i].val.copyId = "" /\ loans[j].val.copyId # ""
    /\ loans[i].val.start # loans[j].val.start
    /\ loans[i].val.returned # None

\* the target of the call is there to be borrowed
Borrowable ==
  \/ /\ last'.op = "borrow_copy"
     /\ last'.id \in DOMAIN copies
     /\ copies[last'.id].status = IN_LIBRARY
  \/ /\ last'.op = "borrow_original_new_release"
     /\ last'.id \in NewReleases \ newReleaseBorrowed

\* C8: for an existing reader and an otherwise borrowable copy or original, a
\* borrow on a day <= activeBanUntil raises BORROW_FORBIDDEN whatever the
\* number of active loans; with no ban, or on a later day, it succeeds when
\* the reader has fewer than 3 active loans.
C8_BanInclusive ==
  [][(Called(Borrows) /\ last'.reader \in DOMAIN readers /\ Borrowable) =>
       IF Banned(last'.reader, last'.day)
       THEN last'.result = "BORROW_FORBIDDEN" /\ UNCHANGED db
       ELSE Len(readers[last'.reader].activeLoanIds) < 3 => last'.result = "OK"]_vars

\* a reader without loans was just refused a copy in the library on the last
\* day of the ban
C8_Witness ==
  /\ last.op = "borrow_copy" /\ last.result = "BORROW_FORBIDDEN"
  /\ last.reader \in DOMAIN readers
  /\ readers[last.reader].activeLoanIds = <<>>
  /\ readers[last.reader].activeBanUntil = Some(last.day)
  /\ last.id \in DOMAIN copies /\ copies[last.id].status = IN_LIBRARY

\* C9: a call that raises one of the named faults leaves copies, readers,
\* loans, books and newReleaseBorrowed as they were and sends no notification.
C9_NoPartialMutation ==
  [][(Called(Borrows \cup Returns) /\ last'.result # "OK") =>
       /\ last'.result \in Faults
       /\ UNCHANGED <<db, alert, sent>>]_vars

\* a fault raised on a store that holds an open and a closed loan, after a
\* notification went out
C9_Witness ==
  /\ last.result \in Faults
  /\ Open # {} /\ Closed # {}
  /\ sent # <<>>

\* C10: right after a successful return of an original, a borrow of that
\* original by any existing reader who can borrow raises no fault.
C10_BorrowableAgain ==
  [][Succeeded({"return_original_new_release"}) =>
       \A b \in {last'.id}, q \in DOMAIN readers, d \in BorrowDays :
         can_borrow(readers'[q], d) => (borrow_original_fault(b, q, d))' = "OK"]_vars

\* the original went back and the next call lent it to another reader
C10_Witness ==
  /\ last.op = "borrow_original_new_release" /\ last.result = "OK"
  /\ \E i \in Closed :
       /\ loans[i].val.copyId = "" /\ loans[i].val.bookId = last.id
       /\ loans[i].val.readerId # last.reader
       /\ i + 1 = Len(loans)
       /\ loans[i + 1].val.readerId = last.reader

\* the reader may borrow on the day: no ban that covers it, fewer than 3 loans
Eligible(r, d) == ~Banned(r, d) /\ Len(readers[r].activeLoanIds) < 3

\* C11: borrow_copy reports the first precondition that fails, in the order
\* unknown copy (COPY_NOT_FOUND), unknown reader (READER_NOT_FOUND), reader not
\* eligible (BORROW_FORBIDDEN), copy not IN_LIBRARY (COPY_NOT_AVAILABLE), and
\* succeeds when none fails; an ineligible reader asking for a loaned copy
\* gets BORROW_FORBIDDEN.
C11_BorrowCopyOrder ==
  [][Called({"borrow_copy"}) =>
       LET c == last'.id
           r == last'.reader
           res == last'.result
       IN /\ c \notin DOMAIN copies => res = "COPY_NOT_FOUND"
          /\ (c \in DOMAIN copies /\ r \notin DOMAIN readers) => res = "READER_NOT_FOUND"
          /\ (c \in DOMAIN copies /\ r \in DOMAIN readers) =>
               IF ~Eligible(r, last'.day) THEN res = "BORROW_FORBIDDEN"
               ELSE IF copies[c].status # IN_LIBRARY THEN res = "COPY_NOT_AVAILABLE"
               ELSE res = "OK"]_vars

\* a banned reader was just refused a copy that is on loan to another reader
C11_Witness ==
  /\ last.op = "borrow_copy" /\ last.result = "BORROW_FORBIDDEN"
  /\ last.id \in DOMAIN copies /\ copies[last.id].status = LOANED
  /\ \E i \in OpenOfCopy(last.id) : loans[i].val.readerId # last.reader

\* C12: borrow_original_new_release reports the first precondition that fails,
\* in the order unknown book (BOOK_NOT_FOUND), unknown reader
\* (READER_NOT_FOUND), book not a new release (NOT_NEW_RELEASE), reader not
\* eligible (BORROW_FORBIDDEN), original on loan (ORIGINAL_ALREADY_BORROWED);
\* when none fails it adds one open loan with copyId "", puts the book in
\* newReleaseBorrowed and appends the new loan id to the reader's activeLoanIds.
C12_BorrowOriginalOrder ==
  [][Called({"borrow_original_new_release"}) =>
       LET b == last'.id
           r == last'.reader
           res == last'.result
       IN /\ b \notin DOMAIN books => res = "BOOK_NOT_FOUND"
          /\ (b \in DOMAIN books /\ r \notin DOMAIN readers) => res = "READER_NOT_FOUND"
          /\ (b \in DOMAIN books /\ r \in DOMAIN readers) =>
               IF ~books[b].isNewRelease THEN res = "NOT_NEW_RELEASE"
               ELSE IF ~Eligible(r, last'.day) THEN res = "BORROW_FORBIDDEN"
               ELSE IF b \in newReleaseBorrowed THEN res = "ORIGINAL_ALREADY_BORROWED"
               ELSE res = "OK"
          /\ res = "OK" =>
               /\ Len(loans') = Len(loans) + 1
               /\ LET e == loans'[Len(loans')]
                  IN /\ e.val.copyId = "" /\ e.val.bookId = b /\ e.val.readerId = r
                     /\ e.val.returned = None
                     /\ last'.ret = Some(e.key)
                     /\ readers'[r].activeLoanIds = Append(readers[r].activeLoanIds, e.key)
               /\ newReleaseBorrowed' = newReleaseBorrowed \cup {b}]_vars

\* a banned reader was just refused an original that another reader holds:
\* that loan is open with copyId "", its id is in the borrower's activeLoanIds
\* and the book is in newReleaseBorrowed
C12_Witness ==
  /\ last.op = "borrow_original_new_release" /\ last.result = "BORROW_FORBIDDEN"
  /\ last.id \in newReleaseBorrowed
  /\ \E i \in OpenOriginal(last.id) :
       /\ loans[i].val.readerId # last.reader
       /\ \E k \in DOMAIN readers[loans[i].val.readerId].activeLoanIds :
            readers[loans[i].val.readerId].activeLoanIds[k] = loans[i].key

\* C13: return_copy raises COPY_NOT_FOUND for an unknown copy and
\* COPY_NOT_LOANED for a copy whose status is neither LOANED nor LATE, and
\* neither of the two for a LOANED or LATE copy; a return_copy right after a
\* successful return_copy of the same copy raises COPY_NOT_LOANED; a
\* borrow_copy succeeds only on a copy all of whose loans are closed.
C13_ReturnCopyFaults ==
  [][/\ Called({"return_copy"}) =>
          LET c == last'.id
              res == last'.result
          IN /\ c \notin DOMAIN copies => res = "COPY_NOT_FOUND"
             /\ c \in DOMAIN copies =>
                  IF copies[c].status \notin {LOANED, LATE}
                  THEN res = "COPY_NOT_LOANED"
                  ELSE res \notin {"COPY_NOT_FOUND", "COPY_NOT_LOANED"}
             /\ (last.op = "return_copy" /\ last.result = "OK" /\ last.id = c)
                  => res = "COPY_NOT_LOANED"
     /\ Succeeded({"borrow_copy"}) =>
          \A i \in DOMAIN loans :
            loans[i].val.copyId = last'.id => loans[i].val.returned # None]_vars

\* a return was just refused with COPY_NOT_LOANED for a copy whose loan, the
\* latest of the store, was closed on the same day, while the seeded copy
\* is RESERVED or under REPAIR
C13_Witness ==
  /\ last.op = "return_copy" /\ last.result = "COPY_NOT_LOANED"
  /\ last.id \in DOMAIN copies /\ copies[last.id].status = IN_LIBRARY
  /\ loans # <<>>
  /\ loans[Len(loans)].val.copyId = last.id
  /\ loans[Len(loans)].val.returned = Some(last.day)
  /\ \E c \in DOMAIN copies : copies[c].status \in {RESERVED, REPAIR}

\* C14: from an empty loans map, the loan ids are "L1", "L2", ... in the order
\* of creation; a successful borrow of either kind returns "L" + (number of
\* loans before it + 1), which was no key of the map, adds exactly that one
\* record and leaves the others as they were; no other call changes the
\* number of loans.
C14_LoanIds ==
  /\ [](\A i \in DOMAIN loans : loans[i].key = <<"L", i>>)
  /\ [][IF Succeeded(Borrows)
        THEN /\ last'.ret = Some(<<"L", Len(loans) + 1>>)
             /\ last'.ret[1] \notin Keys(loans)
             /\ Len(loans') = Len(loans) + 1
             /\ loans'[Len(loans')].key = last'.ret[1]
             /\ \A i \in DOMAIN loans : loans'[i] = loans[i]
        ELSE Len(loans') = Len(loans)]_vars

\* the second borrow returned "L2" after a borrow of the other kind returned
\* "L1" and that loan was closed
C14_Witness ==
  /\ last.op \in Borrows /\ last.result = "OK" /\ last.ret = Some(<<"L", 2>>)
  /\ Len(loans) = 2
  /\ loans[1].key = <<"L", 1>> /\ loans[2].key = <<"L", 2>>
  /\ (loans[1].val.copyId = "") # (loans[2].val.copyId = "")
  /\ loans[1].val.returned # None

\* C15: no call removes a loan or changes its id, copyId, bookId, readerId,
\* start or due, and once returned is set it keeps its value: the only change
\* a loan ever sees is the one write of returned by the return that closes it.
C15_LoanMutatedOnce ==
  [][/\ Len(loans') >= Len(loans)
     /\ \A i \in DOMAIN loans :
          LET L == loans[i].val
              M == loans'[i].val
          IN /\ loans'[i].key = loans[i].key
             /\ M.copyId = L.copyId /\ M.bookId = L.bookId /\ M.readerId = L.readerId
             /\ M.start = L.start /\ M.due = L.due
             /\ L.returned # None => M.returned = L.returned
             /\ M.returned # L.returned => (Succeeded(Returns) /\ M.returned = Some(last'.day))]_vars

\* a copy was lent twice and returned on two different days: the second
\* return left the first loan's return date alone
C15_Witness ==
  /\ last.op = "return_copy" /\ last.result = "OK"
  /\ \E i, j \in Closed :
       /\ i < j
       /\ loans[i].val.copyId = last.id /\ loans[j].val.copyId = last.id
       /\ loans[j].val.returned = Some(last.day)
       /\ loans[i].val.returned # loans[j].val.returned

\* C19: return_original_new_release by an existing reader for an original
\* that another reader holds raises LOAN_NOT_FOUND and changes nothing (the
\* book stays in newReleaseBorrowed, the loan stays open, the borrower's
\* activeLoanIds and activeBanUntil stay); by an existing reader for an existing
\* book whose original is not on loan it raises ORIGINAL_NOT_BORROWED.
C19_ReturnOriginalFaults ==
  [][(/\ Called({"return_original_new_release"})
      /\ last'.id \in DOMAIN books
      /\ last'.reader \in DOMAIN readers) =>
       LET b == last'.id
           r == last'.reader
       IN IF b \notin newReleaseBorrowed
          THEN last'.result = "ORIGINAL_NOT_BORROWED"
          ELSE (\A i \in OpenOriginal(b) : loans[i].val.readerId # r) =>
                 /\ last'.result = "LOAN_NOT_FOUND"
                 /\ b \in newReleaseBorrowed'
                 /\ \A i \in OpenOriginal(b) : loans'[i].val.returned = None
                 /\ UNCHANGED <<db, alert, sent>>]_vars

\* a reader who holds a copy loan was just refused the return of an original
\* that another reader holds
C19_Witness ==
  /\ last.op = "return_original_new_release" /\ last.result = "LOAN_NOT_FOUND"
  /\ last.id \in newReleaseBorrowed
  /\ last.reader \in DOMAIN readers
  /\ readers[last.reader].activeLoanIds # <<>>
  /\ \E i \in OpenOriginal(last.id) :
       /\ loans[i].val.readerId # last.reader
       /\ readers[loans[i].val.readerId].activeLoanIds = <<loans[i].key>>

\* C20: from a store whose copies are all IN_LIBRARY and that holds no loan,
\* under the four operations, return_copy never raises LOAN_NOT_FOUND, a
\* LOANED copy always has an open loan, and every copy is IN_LIBRARY or LOANED.
C20_StatusesUsed ==
  /\ [](\A c \in DOMAIN copies :
          /\ copies[c].status \in {IN_LIBRARY, LOANED}
          /\ copies[c].status = LOANED => OpenOfCopy(c) # {})
  /\ [][Called({"return_copy"}) => last'.result # "LOAN_NOT_FOUND"]_vars

\* a copy was just returned a second time in vain, after it was lent,
\* returned, while the other copy is on loan
C20_Witness ==
  /\ last.op = "return_copy" /\ last.result = "COPY_NOT_LOANED"
  /\ last.id \in DOMAIN copies
  /\ \E i \in Closed : loans[i].val.copyId = last.id
  /\ \E c \in DOMAIN copies : copies[c].status = LOANED /\ OpenOfCopy(c) # {}

\* the book a return call is about: the book of the copy, or the book itself
ReturnedBook ==
  IF last'.op = "return_copy" THEN copies[last'.id].bookId ELSE last'.id

\* what the step appended to the messages sent
NewlySent == SubSeq(sent', Len(sent) + 1, Len(sent'))

\* the message the notifier owes the reader r for the book b
Owed(r, b) ==
  [to |-> readers[r].email,
   subject |-> <<"Disponible: ", books[b].title>>,
   body |-> "Ya puedes solicitarlo"]

AlertOps == {"subscribe", "set_gateway", "reset"}

\* the readers the subscription map holds for the book
SubscribedTo(b) == IF b \in DOMAIN subs THEN subs[b] ELSE {}

C18_SubscriptionsPersist ==
  [][/\ Called(Borrows \cup Returns) => UNCHANGED <<subs, gateway>>
     /\ (Succeeded(Returns) /\ gateway) =>
          \A r \in SubscribedTo(ReturnedBook) :
            \E i \in DOMAIN NewlySent : NewlySent[i] = Owed(r, ReturnedBook)
     /\ ~Called({"reset"}) =>
          \A b \in DOMAIN subs : b \in DOMAIN subs' /\ subs[b] \subseteq subs'[b]
     /\ Called({"reset"}) => DOMAIN subs' = {}
     /\ Called({"subscribe"}) =>
          /\ last'.reader \in subs'[last'.id]
          /\ last'.reader \in SubscribedTo(last'.id) => UNCHANGED <<db, alert, sent>>]_vars

\* the same book came back twice and its one subscriber got the same message
\* both times
C18_Witness ==
  /\ last.op \in Returns /\ last.result = "OK"
  /\ Len(sent) = 2 /\ sent[1] = sent[2]
  /\ Cardinality(Closed) = 2
  /\ loans[1].val.bookId = loans[2].val.bookId
  /\ Cardinality(SubscribedTo(loans[1].val.bookId)) = 1

\* a return raised KeyError at a subscriber who is no reader, after a message went out
KeyErrorAfterSend ==
  last.op \in Returns /\ last.result = "KeyError" /\ sent # <<>>

\* the threads whose borrow returned a loan id
Returned == {t \in Threads : threads[t].pc = "done" /\ threads[t].call.result = "OK"}

\* C16: when two threads run borrows on the one service, each call acts as
\* one atomic unit: two borrows never both succeed on the same copy or the
\* same original (no return happens in between), two borrows never return
\* the same loan id, and every loan id returned is the key of its own record.
C16_Atomic ==
  /\ \A t, u \in Returned :
       t # u =>
         /\ ~(/\ threads[t].call.op = threads[u].call.op
              /\ threads[t].call.id = threads[u].call.id)
         /\ threads[t].call.ret # threads[u].call.ret
  /\ Cardinality(Returned) = Len(loans)

====
